---- MODULE Spec2Model ----
(***************************************************************************)
(* HubSpot data-access layer: HubSpotResponse (the Envelope) and the       *)
(* eleven HubSpotDataSource methods, each a single SDK call wrapped in a   *)
(* try/except and reshaped into an Envelope.                               *)
(*                                                                         *)
(* Python values are modelled as follows.                                  *)
(*   - Optional[T]: None is <<>>, a present value x is <<x>>.              *)
(*   - str: a sequence of one-character strings.                           *)
(*   - dict: a function (record) from keys to values.                      *)
(*   - list: a sequence.                                                   *)
(*   - an exception: [cls |-> class name, msg |-> str(e)].                 *)
(*   - an f-string f"{prefix}{x}": the record [prefix |-> .., detail |-> x]*)
(***************************************************************************)
EXTENDS Integers, Sequences, FiniteSets, TLC

VARIABLES client, pc, inv, calls, resp, ret, escaped, flight

vars == <<client, pc, inv, calls, resp, ret, escaped, flight>>

\* ------------------------------------------------------------------ bounds
\* Longest contacts page the provider answers a search with.
MaxPage == 6
\* Longest page the provider answers a plain page read with.
MaxRead == 2
\* Invocations that can be in flight on one data source at the same time.
MaxInFlight == 2

\* ------------------------------------------------------- Python primitives
None == <<>>
Some(x) == <<x>>

\* Python truthiness of an Optional str / list / dict: None and the empty
\* value are both falsy.
Truthy(opt) == opt # None /\ opt[1] # <<>>

\* dict.get(key, default)
Get(d, key, default) == IF key \in DOMAIN d THEN d[key] ELSE default

\* str(x) of an Optional[str]: str(None) is the four characters "None".
Str(v) == IF v = None THEN <<"N", "o", "n", "e">> ELSE v[1]

\* One character of str.lower().
LowerChar(c) ==
  CASE c = "A" -> "a"
    [] c = "B" -> "b"
    [] c = "N" -> "n"
    [] c = "Z" -> "z"
    [] OTHER -> c

\* str.lower()
Lower(s) == [i \in 1..Len(s) |-> LowerChar(s[i])]

\* ' '.join(fields)
RECURSIVE Join(_)
Join(fields) ==
  IF Len(fields) = 0 THEN <<>>
  ELSE IF Len(fields) = 1 THEN fields[1]
  ELSE fields[1] \o <<" ">> \o Join(Tail(fields))

\* q occurs in t at position i (1-based).
OccursAt(q, t, i) == i + Len(q) - 1 <= Len(t) /\ SubSeq(t, i, i + Len(q) - 1) = q

\* Python's `q in t` for strings.
In(q, t) == \E i \in 1..(Len(t) + 1) : OccursAt(q, t, i)

\* str.count: scan left to right, jump over each occurrence found; the empty
\* string is counted once at every position, the end included.
RECURSIVE CountFrom(_, _, _)
CountFrom(t, q, i) ==
  IF i + Len(q) - 1 > Len(t) THEN 0
  ELSE IF OccursAt(q, t, i) THEN 1 + CountFrom(t, q, i + Len(q))
  ELSE CountFrom(t, q, i + 1)

\* Every occurrence counted, overlapping ones included.
CountOverlapping(t, q) == Cardinality({i \in 1..(Len(t) + 1) : OccursAt(q, t, i)})

Count(t, q) == IF q = <<>> THEN Len(t) + 1 ELSE CountFrom(t, q, 1)

\* The list left as it is.
SliceNone(seq, n) == seq

\* list[:n] for n >= 0
Slice(seq, n) == SubSeq(seq, 1, IF n < Len(seq) THEN n ELSE Len(seq))

Min(S) == CHOOSE x \in S : \A y \in S : x <= y

\* ------------------------------------------------------------- the Envelope
\* The dataclass with the data field defaulting to an empty dict.
HubSpotResponseDataDefaultDict(success, data, error, message) ==
  [success |-> success, data |-> IF data = None THEN Some(<<>>) ELSE data,
   error |-> error, message |-> message]

\* HubSpotResponse(success, data=None, error=None, message=None)
HubSpotResponse(success, data, error, message) ==
  [success |-> success, data |-> data, error |-> error, message |-> message]

\* f"{prefix}{str(e)}"
Fmt(prefix, detail) == [prefix |-> prefix, detail |-> detail]

\* What a body, or an SDK call, ends in.
Return(v) == [kind |-> "return", value |-> v]
Raise(e) == [kind |-> "raise", exc |-> e]

\* isinstance(e, cls): every class modelled derives from Exception.
IsInstance(e, cls) == cls = "Exception" \/ e.cls = cls

\* The except clauses of a try statement, tried in order; an exception no
\* clause names propagates.
Except(handlers, e) ==
  LET matching == {i \in 1..Len(handlers) : IsInstance(e, handlers[i].cls)}
  IN IF matching = {} THEN Raise(e)
     ELSE Return(HubSpotResponse(FALSE, None,
                                 Some(Fmt(handlers[Min(matching)].prefix, e.msg)), None))

Try(body, handlers) == IF body.kind = "raise" THEN Except(handlers, body.exc) ELSE body

\* A call into the SDK, as the provider sees it.
SdkCall(api, op, args) == [api |-> api, op |-> op, args |-> args]

\* --------------------------------------------------- what the provider holds
\* Timestamps pass through untouched.
CreatedAt == "2024-01-01T00:00:00Z"
UpdatedAt == "2024-06-01T00:00:00Z"

\* Property maps of fetched contacts, as the SDK hands them over: a field may
\* be missing, or present with a null value; the map itself may be absent.
PropsAaAaNull ==
  [firstname |-> Some(<<"A", "a">>), lastname |-> Some(<<"a", "a">>), email |-> None]
PropsAaaBB ==
  [firstname |-> Some(<<"a", "a", "a">>), lastname |-> Some(<<>>),
   email |-> Some(<<"b">>), company |-> Some(<<"B">>)]

SearchProps == {Some(PropsAaAaNull), Some(PropsAaaBB), None}
ReadProps == {Some(PropsAaaBB), Some(<<>>), None}

\* An SDK object (SimplePublicObject): ids are the positions in the page, so
\* they are distinct within one page.
SdkObject(id, props) ==
  [id |-> id, properties |-> props, created_at |-> CreatedAt, updated_at |-> UpdatedAt]

PagesOf(props, n) ==
  UNION {{[i \in 1..k |-> SdkObject(i, f[i])] : f \in [1..k -> props]} : k \in 0..n}

\* One entry of a property schema (crm.properties).
SchemaProp ==
  [name |-> "email", label |-> "Email", type |-> "string", field_type |-> "text",
   description |-> "Email address"]

\* Exceptions the SDK raises: the three entity-specific ApiException classes
\* and one class that is none of them.
ExcClasses ==
  {"ContactsApiException", "CompaniesApiException", "DealsApiException", "ConnectionError"}
ExcMsgs == {"(404) Not Found", "timed out"}
Exceptions == {[cls |-> c, msg |-> m] : c \in ExcClasses, m \in ExcMsgs}
Raised == {Raise(e) : e \in Exceptions}

\* Outcomes of a get_page call: a response whose results are None or a page,
\* or an exception.
PageOutcomes(props, n) ==
  {Return([results |-> None])}
    \cup {Return([results |-> Some(p)]) : p \in PagesOf(props, n)}
    \cup Raised
\* Outcomes of get_by_id / create / update: one object, or an exception.
ObjectOutcomes == {Return(SdkObject("101", p)) : p \in ReadProps} \cup Raised
\* Outcomes of properties.core_api.get_all.
SchemaOutcomes ==
  {Return([results |-> r]) : r \in {None, Some(<<>>), Some(<<SchemaProp>>),
                                    Some(<<SchemaProp, SchemaProp>>)}}
    \cup Raised

\* ------------------------------------------------------------ the arguments
Limits == {0, 2, 5}
PropertyLists == {None, Some(<<"email">>), Some(<<>>)}
Ids == {"101", "999"}
\* Property maps handed to the write operations (Dict[str, str]).
WriteMaps ==
  {<<>>, [email |-> Some(<<>>)], [email |-> Some(<<"b">>)], [name |-> Some(<<>>)],
   [name |-> Some(<<"b">>)], [email |-> Some(<<"b">>), name |-> Some(<<"b">>)],
   [firstname |-> Some(<<"a">>)]}
Queries ==
  {<<>>, <<"A">>, <<"a", "a">>, <<"n", "o", "n", "e">>, <<"z">>}
ObjectTypes == {"contacts", "companies", "deals", "invoices", "Contacts", ""}

\* ------------------------------------------------------- result projection
\* {'id': o.id, 'properties': dict(o.properties) if o.properties else {},
\*  'created_at': o.created_at, 'updated_at': o.updated_at}
RecordOf(o) ==
  [id |-> o.id,
   properties |-> IF Truthy(o.properties) THEN o.properties[1] ELSE <<>>,
   created_at |-> o.created_at,
   updated_at |-> o.updated_at]

\* The loop over api_response.results, skipped when results is None or empty.
RecordsOf(response) ==
  IF Truthy(response.results)
  THEN [i \in 1..Len(response.results[1]) |-> RecordOf(response.results[1][i])]
  ELSE <<>>

\* A method's outcome: the SDK calls it made and what it ended in.
Outcome(made, result) == [calls |-> made, result |-> result]

\* ---------------------------------------------------------- get_account_info
\* Only the SDK's own exception class caught.
get_account_info_except_api_only ==
  <<[cls |-> "ContactsApiException", prefix |-> "Account connection error: "]>>

get_account_info_except == <<[cls |-> "Exception", prefix |-> "Account connection error: "]>>

\* get_account_info taking any result list, an empty one too, as contacts.
get_account_info_any_list(out) ==
  LET call == SdkCall("crm.contacts.basic_api", "get_page", [limit |-> 1])
      body ==
        IF out.kind = "raise" THEN out
        ELSE LET api_response == out.value
                 account_info ==
                   [account_connected |-> TRUE,
                    api_working |-> TRUE,
                    has_contacts |-> api_response.results # None]
             IN Return(HubSpotResponse(TRUE, Some(account_info), None,
                                       Some(Fmt("HubSpot account connected successfully", ""))))
  IN Outcome(<<call>>, Try(body, get_account_info_except))

get_account_info(out) ==
  LET call == SdkCall("crm.contacts.basic_api", "get_page", [limit |-> 1])
      body ==
        IF out.kind = "raise" THEN out
        ELSE LET api_response == out.value
                 account_info ==
                   [account_connected |-> TRUE,
                    api_working |-> TRUE,
                    has_contacts |-> IF Truthy(api_response.results)
                                     THEN Len(api_response.results[1]) > 0
                                     ELSE FALSE]
             IN Return(HubSpotResponse(TRUE, Some(account_info), None,
                                       Some(Fmt("HubSpot account connected successfully", ""))))
  IN Outcome(<<call>>, Try(body, get_account_info_except))

\* -------------------------------------------------------------- page reads
DefaultContactProperties ==
  <<"firstname", "lastname", "email", "company", "phone", "jobtitle">>
\* The contacts list pasted in for companies.
DefaultCompanyPropertiesPasted ==
  <<"firstname", "lastname", "email", "company", "phone", "jobtitle">>

DefaultCompanyProperties ==
  <<"name", "domain", "industry", "city", "state", "country", "phone">>
DefaultDealProperties == <<"dealname", "amount", "dealstage", "pipeline", "closedate">>

\* The two clauses in the other order: the catch-all shadows the specific one.
get_contacts_except_catch_all_first ==
  <<[cls |-> "Exception", prefix |-> "Unexpected error: "],
    [cls |-> "ContactsApiException", prefix |-> "HubSpot contacts API error: "]>>

get_contacts_except ==
  <<[cls |-> "ContactsApiException", prefix |-> "HubSpot contacts API error: "],
    [cls |-> "Exception", prefix |-> "Unexpected error: "]>>

get_contacts(limit, properties, out) ==
  LET props == IF properties = None THEN DefaultContactProperties ELSE properties[1]
      call == SdkCall("crm.contacts.basic_api", "get_page",
                      [limit |-> limit, properties |-> props])
      body ==
        IF out.kind = "raise" THEN out
        ELSE LET contacts_data == RecordsOf(out.value)
             IN Return(HubSpotResponse(TRUE,
                         Some([contacts |-> contacts_data,
                               total |-> Len(contacts_data),
                               properties_requested |-> props]),
                         None,
                         Some(Fmt("Retrieved {n} contacts successfully", Len(contacts_data)))))
  IN Outcome(<<call>>, Try(body, get_contacts_except))

get_companies_except ==
  <<[cls |-> "CompaniesApiException", prefix |-> "HubSpot companies API error: "],
    [cls |-> "Exception", prefix |-> "Unexpected error: "]>>

get_companies(limit, properties, out) ==
  LET props == IF properties = None THEN DefaultCompanyProperties ELSE properties[1]
      call == SdkCall("crm.companies.basic_api", "get_page",
                      [limit |-> limit, properties |-> props])
      body ==
        IF out.kind = "raise" THEN out
        ELSE LET companies_data == RecordsOf(out.value)
             IN Return(HubSpotResponse(TRUE,
                         Some([companies |-> companies_data,
                               total |-> Len(companies_data),
                               properties_requested |-> props]),
                         None,
                         Some(Fmt("Retrieved {n} companies successfully", Len(companies_data)))))
  IN Outcome(<<call>>, Try(body, get_companies_except))

get_deals_except ==
  <<[cls |-> "DealsApiException", prefix |-> "HubSpot deals API error: "],
    [cls |-> "Exception", prefix |-> "Unexpected error: "]>>

\* get_deals asking the provider once more when the first call raised.
get_deals_retrying(limit, properties, out) ==
  LET props == IF properties = None THEN DefaultDealProperties ELSE properties[1]
      call == SdkCall("crm.deals.basic_api", "get_page",
                      [limit |-> limit, properties |-> props])
      body ==
        IF out.kind = "raise" THEN out
        ELSE LET deals_data == RecordsOf(out.value)
             IN Return(HubSpotResponse(TRUE,
                         Some([deals |-> deals_data,
                               total |-> Len(deals_data),
                               properties_requested |-> props]),
                         None,
                         Some(Fmt("Retrieved {n} deals successfully", Len(deals_data)))))
  IN Outcome(IF out.kind = "raise" THEN <<call, call>> ELSE <<call>>,
             Try(body, get_deals_except))

get_deals(limit, properties, out) ==
  LET props == IF properties = None THEN DefaultDealProperties ELSE properties[1]
      call == SdkCall("crm.deals.basic_api", "get_page",
                      [limit |-> limit, properties |-> props])
      body ==
        IF out.kind = "raise" THEN out
        ELSE LET deals_data == RecordsOf(out.value)
             IN Return(HubSpotResponse(TRUE,
                         Some([deals |-> deals_data,
                               total |-> Len(deals_data),
                               properties_requested |-> props]),
                         None,
                         Some(Fmt("Retrieved {n} deals successfully", Len(deals_data)))))
  IN Outcome(<<call>>, Try(body, get_deals_except))

\* ------------------------------------------------------------- reads by id
get_contact_by_id_except ==
  <<[cls |-> "ContactsApiException", prefix |-> "Contact not found or API error: "],
    [cls |-> "Exception", prefix |-> "Unexpected error: "]>>

get_contact_by_id(contact_id, properties, out) ==
  LET props == IF properties = None THEN DefaultContactProperties ELSE properties[1]
      call == SdkCall("crm.contacts.basic_api", "get_by_id",
                      [contact_id |-> contact_id, properties |-> props])
      body ==
        IF out.kind = "raise" THEN out
        ELSE Return(HubSpotResponse(TRUE, Some(RecordOf(out.value)), None,
                                    Some(Fmt("Retrieved contact {id} successfully", contact_id))))
  IN Outcome(<<call>>, Try(body, get_contact_by_id_except))

get_company_by_id_except ==
  <<[cls |-> "CompaniesApiException", prefix |-> "Company not found or API error: "],
    [cls |-> "Exception", prefix |-> "Unexpected error: "]>>

get_company_by_id(company_id, properties, out) ==
  LET props == IF properties = None THEN DefaultCompanyProperties ELSE properties[1]
      call == SdkCall("crm.companies.basic_api", "get_by_id",
                      [company_id |-> company_id, properties |-> props])
      body ==
        IF out.kind = "raise" THEN out
        ELSE Return(HubSpotResponse(TRUE, Some(RecordOf(out.value)), None,
                                    Some(Fmt("Retrieved company {id} successfully", company_id))))
  IN Outcome(<<call>>, Try(body, get_company_by_id_except))

\* ------------------------------------------------------------------ writes
\* The check made on the key alone: an empty value passes.
RequiredFieldAbsent(properties, field) == field \notin DOMAIN properties

\* `not properties.get(field)`: the key is missing, or its value is falsy.
RequiredFieldMissing(properties, field) == ~Truthy(Get(properties, field, None))

create_contact_except ==
  <<[cls |-> "ContactsApiException", prefix |-> "Failed to create contact: "],
    [cls |-> "Exception", prefix |-> "Unexpected error: "]>>

create_contact(properties, out) ==
  IF RequiredFieldMissing(properties, "email")
  THEN Outcome(<<>>,
         Try(Return(HubSpotResponse(FALSE, None,
                      Some(Fmt("Email is required to create a contact", "")), None)),
             create_contact_except))
  ELSE
    LET call == SdkCall("crm.contacts.basic_api", "create",
                        [simple_public_object_input |-> [properties |-> properties]])
        body ==
          IF out.kind = "raise" THEN out
          ELSE LET api_response == out.value
               IN Return(HubSpotResponse(TRUE,
                           Some([contact_id |-> api_response.id,
                                 properties |-> RecordOf(api_response).properties,
                                 created_at |-> api_response.created_at]),
                           None,
                           Some(Fmt("Contact created successfully", ""))))
    IN Outcome(<<call>>, Try(body, create_contact_except))

\* Both clauses carrying the message of the first.
update_contact_except_same_message ==
  <<[cls |-> "ContactsApiException", prefix |-> "Failed to update contact: "],
    [cls |-> "Exception", prefix |-> "Failed to update contact: "]>>

update_contact_except ==
  <<[cls |-> "ContactsApiException", prefix |-> "Failed to update contact: "],
    [cls |-> "Exception", prefix |-> "Unexpected error: "]>>

update_contact(contact_id, properties, out) ==
  LET call == SdkCall("crm.contacts.basic_api", "update",
                      [contact_id |-> contact_id,
                       simple_public_object_input |-> [properties |-> properties]])
      body ==
        IF out.kind = "raise" THEN out
        ELSE LET api_response == out.value
             IN Return(HubSpotResponse(TRUE,
                         Some([contact_id |-> api_response.id,
                               properties |-> RecordOf(api_response).properties,
                               updated_at |-> api_response.updated_at]),
                         None,
                         Some(Fmt("Contact {id} updated successfully", contact_id))))
  IN Outcome(<<call>>, Try(body, update_contact_except))

create_company_except ==
  <<[cls |-> "CompaniesApiException", prefix |-> "Failed to create company: "],
    [cls |-> "Exception", prefix |-> "Unexpected error: "]>>

create_company(properties, out) ==
  IF RequiredFieldMissing(properties, "name")
  THEN Outcome(<<>>,
         Try(Return(HubSpotResponse(FALSE, None,
                      Some(Fmt("Company name is required", "")), None)),
             create_company_except))
  ELSE
    LET call == SdkCall("crm.companies.basic_api", "create",
                        [simple_public_object_input |-> [properties |-> properties]])
        body ==
          IF out.kind = "raise" THEN out
          ELSE LET api_response == out.value
               IN Return(HubSpotResponse(TRUE,
                           Some([company_id |-> api_response.id,
                                 properties |-> RecordOf(api_response).properties,
                                 created_at |-> api_response.created_at]),
                           None,
                           Some(Fmt("Company created successfully", ""))))
    IN Outcome(<<call>>, Try(body, create_company_except))

\* ------------------------------------------------------------------ search
SearchFields == <<"firstname", "lastname", "email", "company">>

\* ' '.join([str(props.get(f, '')) for the four fields]).lower()
ContactText(props) ==
  Lower(Join([i \in 1..Len(SearchFields) |-> Str(Get(props, SearchFields[i], Some(<<>>)))]))

\* The filtering loop: the contacts whose text holds the lowercased query, in
\* page order, each with its relevance score.
FilterContacts(page, query) ==
  LET q == Lower(query)
      Loop[i \in 0..Len(page)] ==
        IF i = 0 THEN <<>>
        ELSE LET contact == page[i]
                 contact_text == ContactText(contact.properties[1])
             IN IF In(q, contact_text)
                THEN Append(Loop[i - 1],
                            [id |-> contact.id,
                             properties |-> RecordOf(contact).properties,
                             created_at |-> contact.created_at,
                             updated_at |-> contact.updated_at,
                             relevance_score |-> Count(contact_text, q)])
                ELSE Loop[i - 1]
  IN Loop[Len(page)]

\* The same sort done ascending and then reversed: ties come out reversed.
SortByRelevanceReversed(contacts) ==
  LET Insert(sorted, x) ==
        LET k == Cardinality({j \in 1..Len(sorted) :
                               sorted[j].relevance_score > x.relevance_score})
        IN SubSeq(sorted, 1, k) \o <<x>> \o SubSeq(sorted, k + 1, Len(sorted))
      Sorted[i \in 0..Len(contacts)] ==
        IF i = 0 THEN <<>> ELSE Insert(Sorted[i - 1], contacts[i])
  IN Sorted[Len(contacts)]

\* list.sort(key=relevance_score, reverse=True): descending, and stable, so
\* equal scores keep the order they had.
SortByRelevance(contacts) ==
  LET Insert(sorted, x) ==
        LET k == Cardinality({j \in 1..Len(sorted) :
                               sorted[j].relevance_score >= x.relevance_score})
        IN SubSeq(sorted, 1, k) \o <<x>> \o SubSeq(sorted, k + 1, Len(sorted))
      Sorted[i \in 0..Len(contacts)] ==
        IF i = 0 THEN <<>> ELSE Insert(Sorted[i - 1], contacts[i])
  IN Sorted[Len(contacts)]

search_contacts_except == <<[cls |-> "Exception", prefix |-> "Search error: "]>>

NoneTypeHasNoGet ==
  [cls |-> "AttributeError", msg |-> "'NoneType' object has no attribute 'get'"]

search_contacts(query, limit, out) ==
  LET call == SdkCall("crm.contacts.basic_api", "get_page",
                      [limit |-> limit * 2, properties |-> SearchFields])
      body ==
        IF out.kind = "raise" THEN out
        ELSE LET api_response == out.value
                 page == IF Truthy(api_response.results) THEN api_response.results[1] ELSE <<>>
             IN IF \E i \in 1..Len(page) : page[i].properties = None
                THEN Raise(NoneTypeHasNoGet)
                ELSE LET filtered_contacts ==
                           Slice(SortByRelevance(FilterContacts(page, query)), limit)
                     IN Return(HubSpotResponse(TRUE,
                                 Some([contacts |-> filtered_contacts,
                                       total |-> Len(filtered_contacts),
                                       search_query |-> query]),
                                 None,
                                 Some(Fmt("Found {n} contacts matching '{query}'",
                                          Len(filtered_contacts)))))
  IN Outcome(<<call>>, Try(body, search_contacts_except))

\* ------------------------------------------------------ get_properties_info
get_properties_info_except == <<[cls |-> "Exception", prefix |-> "Properties error: "]>>

\* {'name', 'label', 'type', 'field_type', 'description'} of every schema entry.
PropertiesInfoOf(response) ==
  IF Truthy(response.results)
  THEN [i \in 1..Len(response.results[1]) |->
          LET prop == response.results[1][i]
          IN [name |-> prop.name, label |-> prop.label, type |-> prop.type,
              field_type |-> prop.field_type, description |-> prop.description]]
  ELSE <<>>

\* The chain with the companies branch asking for the contacts schema.
RequestedSchemaCopied(object_type) ==
  IF object_type = "contacts" THEN Some("contacts")
  ELSE IF object_type = "companies" THEN Some("contacts")
  ELSE IF object_type = "deals" THEN Some("deals")
  ELSE None

\* The if/elif chain: the object type handed to core_api.get_all, or None
\* when the chain falls through to its else branch.
RequestedSchema(object_type) ==
  IF object_type = "contacts" THEN Some("contacts")
  ELSE IF object_type = "companies" THEN Some("companies")
  ELSE IF object_type = "deals" THEN Some("deals")
  ELSE None

get_properties_info(object_type, out) ==
  LET requested == RequestedSchema(object_type)
  IN IF requested = None
     THEN Outcome(<<>>,
            Try(Return(HubSpotResponse(FALSE, None,
                         Some(Fmt("Unsupported object type: ", object_type)), None)),
                get_properties_info_except))
     ELSE
       LET call == SdkCall("crm.properties.core_api", "get_all",
                           [object_type |-> requested[1]])
           body ==
             IF out.kind = "raise" THEN out
             ELSE LET properties_info == PropertiesInfoOf(out.value)
                  IN Return(HubSpotResponse(TRUE,
                              Some([object_type |-> object_type,
                                    properties |-> properties_info,
                                    total |-> Len(properties_info)]),
                              None,
                              Some(Fmt("Retrieved {n} properties for {object_type}",
                                       Len(properties_info)))))
       IN Outcome(<<call>>, Try(body, get_properties_info_except))

\* ------------------------------------------------------------ the machine
\* One invocation among several on the same data source: where it stands,
\* what it was called with, the SDK calls it made, the provider's answer to
\* its call and the Envelope it returned.
IdleSlot == [pc |-> "idle", inv |-> None, calls |-> <<>>, resp |-> None, ret |-> None]

\* HubSpotDataSource.__init__ keeps the SDK client of the handle it is given.
Init ==
  /\ client = "HubSpot(access_token)"
  /\ pc = "idle"
  /\ inv = None
  /\ calls = <<>>
  /\ resp = None
  /\ ret = None
  /\ escaped = None
  /\ flight = [s \in 1..MaxInFlight |-> IdleSlot]

\* One awaited invocation, start to end: the method runs to its return (or to
\* the exception that leaves it) without yielding. The caller awaits one call
\* at a time (pc = "idle").
Invoke(method, args, out, outcome) ==
  /\ pc' = IF outcome.result.kind = "return" THEN "returned" ELSE "raised"
  /\ inv' = Some([method |-> method, args |-> args])
  /\ calls' = outcome.calls
  /\ resp' = IF outcome.calls = <<>> THEN None ELSE Some(out)
  /\ ret' = IF outcome.result.kind = "return" THEN Some(outcome.result.value) ELSE None
  /\ escaped' = IF outcome.result.kind = "raise" THEN Some(outcome.result.exc) ELSE None
  /\ UNCHANGED <<client, flight>>

GetAccountInfo ==
  /\ pc = "idle"
  /\ \E out \in PageOutcomes(ReadProps, MaxRead) :
       Invoke("get_account_info", <<>>, out, get_account_info(out))

GetContacts ==
  /\ pc = "idle"
  /\ \E limit \in Limits, properties \in PropertyLists, out \in PageOutcomes(ReadProps, MaxRead) :
       Invoke("get_contacts", [limit |-> limit, properties |-> properties], out,
              get_contacts(limit, properties, out))

GetContactById ==
  /\ pc = "idle"
  /\ \E contact_id \in Ids, properties \in PropertyLists, out \in ObjectOutcomes :
       Invoke("get_contact_by_id", [contact_id |-> contact_id, properties |-> properties], out,
              get_contact_by_id(contact_id, properties, out))

CreateContact ==
  /\ pc = "idle"
  /\ \E properties \in WriteMaps, out \in ObjectOutcomes :
       Invoke("create_contact", [properties |-> properties], out,
              create_contact(properties, out))

UpdateContact ==
  /\ pc = "idle"
  /\ \E contact_id \in Ids, properties \in WriteMaps, out \in ObjectOutcomes :
       Invoke("update_contact", [contact_id |-> contact_id, properties |-> properties], out,
              update_contact(contact_id, properties, out))

GetCompanies ==
  /\ pc = "idle"
  /\ \E limit \in Limits, properties \in PropertyLists, out \in PageOutcomes(ReadProps, MaxRead) :
       Invoke("get_companies", [limit |-> limit, properties |-> properties], out,
              get_companies(limit, properties, out))

GetCompanyById ==
  /\ pc = "idle"
  /\ \E company_id \in Ids, properties \in PropertyLists, out \in ObjectOutcomes :
       Invoke("get_company_by_id", [company_id |-> company_id, properties |-> properties], out,
              get_company_by_id(company_id, properties, out))

CreateCompany ==
  /\ pc = "idle"
  /\ \E properties \in WriteMaps, out \in ObjectOutcomes :
       Invoke("create_company", [properties |-> properties], out,
              create_company(properties, out))

GetDeals ==
  /\ pc = "idle"
  /\ \E limit \in Limits, properties \in PropertyLists, out \in PageOutcomes(ReadProps, MaxRead) :
       Invoke("get_deals", [limit |-> limit, properties |-> properties], out,
              get_deals(limit, properties, out))

SearchContacts ==
  /\ pc = "idle"
  /\ \E query \in Queries, limit \in Limits, out \in PageOutcomes(SearchProps, MaxPage) :
       Invoke("search_contacts", [query |-> query, limit |-> limit], out,
              search_contacts(query, limit, out))

GetPropertiesInfo ==
  /\ pc = "idle"
  /\ \E object_type \in ObjectTypes, out \in SchemaOutcomes :
       Invoke("get_properties_info", [object_type |-> object_type], out,
              get_properties_info(object_type, out))

\* The caller is done with the Envelope and goes on to its next call.
Discard ==
  /\ pc = "returned"
  /\ pc' = "idle"
  /\ inv' = None
  /\ calls' = <<>>
  /\ resp' = None
  /\ ret' = None
  /\ escaped' = None
  /\ UNCHANGED <<client, flight>>

Next ==
  \/ GetAccountInfo
  \/ GetContacts
  \/ GetContactById
  \/ CreateContact
  \/ UpdateContact
  \/ GetCompanies
  \/ GetCompanyById
  \/ CreateCompany
  \/ GetDeals
  \/ SearchContacts
  \/ GetPropertiesInfo
  \/ Discard

Spec == Init /\ [][Next]_vars

\* ------------------------------------------- several invocations in flight
\* The SDK call blocks the caller's thread; callers that run invocations on
\* several threads have them outstanding together. Each invocation is cut at
\* its SDK call: Begin runs it up to the call, Resume from the provider's
\* answer to its return.

\* What the concurrent callers invoke: every method, and the rejections.
ConcurrentInvocations ==
  {[method |-> "get_account_info", args |-> <<>>],
   [method |-> "get_contacts", args |-> [limit |-> 2, properties |-> None]],
   [method |-> "get_contact_by_id", args |-> [contact_id |-> "101", properties |-> None]],
   [method |-> "create_contact", args |-> [properties |-> [email |-> Some(<<"b">>)]]],
   [method |-> "create_contact", args |-> [properties |-> <<>>]],
   [method |-> "update_contact",
    args |-> [contact_id |-> "101", properties |-> [firstname |-> Some(<<"a">>)]]],
   [method |-> "get_companies", args |-> [limit |-> 2, properties |-> None]],
   [method |-> "get_company_by_id", args |-> [company_id |-> "101", properties |-> None]],
   [method |-> "create_company", args |-> [properties |-> [name |-> Some(<<"b">>)]]],
   [method |-> "get_deals", args |-> [limit |-> 2, properties |-> None]],
   [method |-> "search_contacts", args |-> [query |-> <<"A">>, limit |-> 2]],
   [method |-> "get_properties_info", args |-> [object_type |-> "contacts"]],
   [method |-> "get_properties_info", args |-> [object_type |-> "invoices"]]}

TimedOut == Raise([cls |-> "ConnectionError", msg |-> "timed out"])

\* The provider's possible answers to the call of a method.
ConcurrentAnswers(method) ==
  IF method \in {"get_account_info", "get_contacts", "get_companies", "get_deals",
                 "search_contacts"}
  THEN {Return([results |-> Some(<<SdkObject(1, Some(PropsAaaBB))>>)]), TimedOut}
  ELSE IF method = "get_properties_info"
  THEN {Return([results |-> Some(<<SchemaProp>>)]), TimedOut}
  ELSE {Return(SdkObject("101", Some(PropsAaaBB))), TimedOut}

\* A data source that keeps the answers it was given: a method reuses the
\* answer held by another invocation of the same method when there is one.
DispatchCached(method, args, out) ==
  LET held == {t \in DOMAIN flight :
                 /\ flight[t].pc = "returned" /\ flight[t].resp # None
                 /\ flight[t].inv[1].method = method}
      used == IF held = {} THEN out ELSE flight[Min(held)].resp[1]
  IN CASE method = "get_account_info" -> get_account_info(used)
       [] method = "get_contacts" -> get_contacts(args.limit, args.properties, used)
       [] method = "get_contact_by_id" ->
            get_contact_by_id(args.contact_id, args.properties, used)
       [] method = "create_contact" -> create_contact(args.properties, used)
       [] method = "update_contact" -> update_contact(args.contact_id, args.properties, used)
       [] method = "get_companies" -> get_companies(args.limit, args.properties, used)
       [] method = "get_company_by_id" ->
            get_company_by_id(args.company_id, args.properties, used)
       [] method = "create_company" -> create_company(args.properties, used)
       [] method = "get_deals" -> get_deals(args.limit, args.properties, used)
       [] method = "search_contacts" -> search_contacts(args.query, args.limit, used)
       [] method = "get_properties_info" -> get_properties_info(args.object_type, used)

\* The method of the data source a call names, run on its arguments and on
\* the provider's answer to its own call.
Dispatch(method, args, out) ==
  CASE method = "get_account_info" -> get_account_info(out)
    [] method = "get_contacts" -> get_contacts(args.limit, args.properties, out)
    [] method = "get_contact_by_id" -> get_contact_by_id(args.contact_id, args.properties, out)
    [] method = "create_contact" -> create_contact(args.properties, out)
    [] method = "update_contact" -> update_contact(args.contact_id, args.properties, out)
    [] method = "get_companies" -> get_companies(args.limit, args.properties, out)
    [] method = "get_company_by_id" -> get_company_by_id(args.company_id, args.properties, out)
    [] method = "create_company" -> create_company(args.properties, out)
    [] method = "get_deals" -> get_deals(args.limit, args.properties, out)
    [] method = "search_contacts" -> search_contacts(args.query, args.limit, out)
    [] method = "get_properties_info" -> get_properties_info(args.object_type, out)

\* The SDK calls a method makes are fixed before the provider answers: they
\* are read off the method run against an outcome still to come.
CallsOf(method, args) == Dispatch(method, args, TimedOut).calls

\* An invocation starts: it validates its arguments and either returns at
\* once (rejected, no call) or issues its SDK call and waits for the answer.
Begin(s) ==
  /\ flight[s].pc = "idle"
  /\ \E i \in ConcurrentInvocations :
       LET made == CallsOf(i.method, i.args)
       IN flight' =
            [flight EXCEPT ![s] =
               IF made = <<>>
               THEN [pc |-> "returned", inv |-> Some(i), calls |-> made, resp |-> None,
                     ret |-> Some(Dispatch(i.method, i.args, TimedOut).result.value)]
               ELSE [pc |-> "awaiting", inv |-> Some(i), calls |-> made, resp |-> None,
                     ret |-> None]]
  /\ UNCHANGED <<client, pc, inv, calls, resp, ret, escaped>>

\* The provider answers the call of invocation s, which runs on to its end.
Resume(s) ==
  /\ flight[s].pc = "awaiting"
  /\ \E out \in ConcurrentAnswers(flight[s].inv[1].method) :
       LET outcome == Dispatch(flight[s].inv[1].method, flight[s].inv[1].args, out)
       IN flight' =
            [flight EXCEPT ![s] =
               [pc |-> IF outcome.result.kind = "return" THEN "returned" ELSE "raised",
                inv |-> flight[s].inv,
                calls |-> outcome.calls,
                resp |-> Some(out),
                ret |-> IF outcome.result.kind = "return"
                        THEN Some(outcome.result.value) ELSE None]]
  /\ UNCHANGED <<client, pc, inv, calls, resp, ret, escaped>>

\* The caller of invocation s takes its Envelope.
Collect(s) ==
  /\ flight[s].pc = "returned"
  /\ flight' = [flight EXCEPT ![s] = IdleSlot]
  /\ UNCHANGED <<client, pc, inv, calls, resp, ret, escaped>>

NextConcurrent ==
  \/ \E s \in DOMAIN flight : Begin(s)
  \/ \E s \in DOMAIN flight : Resume(s)
  \/ \E s \in DOMAIN flight : Collect(s)

SpecConcurrent == Init /\ [][NextConcurrent]_vars

\* ================================================================= claims
\* The invocation that has just ended, its Envelope, and the provider's
\* answer to its call.
Ended == inv # None
Method == inv[1].method
Args == inv[1].args
Envelope == ret[1]
Answer == resp[1]
ProviderRaised == resp # None /\ Answer.kind = "raise"
ProviderReturned == resp # None /\ Answer.kind = "return"

Methods ==
  {"get_account_info", "get_contacts", "get_contact_by_id", "create_contact",
   "update_contact", "get_companies", "get_company_by_id", "create_company",
   "get_deals", "search_contacts", "get_properties_info"}

\* C1: whatever the method, its arguments and the provider's outcome, the
\* Envelope returned has no data when success is false and no error when
\* success is true.
C1_EnvelopeInvariant ==
  (Ended /\ ret # None) =>
    /\ Method \in Methods
    /\ (~Envelope.success => Envelope.data = None)
    /\ (Envelope.success => Envelope.error = None)

\* A failure Envelope built from a provider exception, carrying no data.
C1_Witness ==
  /\ Ended /\ ret # None /\ ProviderRaised
  /\ ~Envelope.success /\ Envelope.data = None /\ Envelope.error # None

\* C2: no invocation ends by raising: every one ends in a returned Envelope,
\* and that Envelope has success = false whenever the SDK call raised or a
\* step of the method did (the search reading a property map that is absent).
C2_NoExceptionEscapes ==
  Ended =>
    /\ pc = "returned"
    /\ escaped = None
    /\ ret # None
    /\ Envelope.success \in BOOLEAN
    /\ (ProviderRaised => ~Envelope.success)
    /\ ((/\ Method = "search_contacts"
         /\ ProviderReturned
         /\ Answer.value.results # None
         /\ \E i \in 1..Len(Answer.value.results[1]) :
               Answer.value.results[1][i].properties = None) => ~Envelope.success)

\* get_account_info, the SDK call raising a class that is not the SDK's own
\* exception: a failure Envelope comes back.
C2_Witness ==
  /\ Ended /\ Method = "get_account_info" /\ ProviderRaised
  /\ Answer.exc.cls = "ConnectionError"
  /\ pc = "returned" /\ ~Envelope.success

\* The required field of a write is missing from the map, or empty.
MissingOrEmpty(properties, field) ==
  \/ field \notin DOMAIN properties
  \/ properties[field] = None
  \/ properties[field] = Some(<<>>)

\* C3: create_contact without a non-empty email, and create_company without a
\* non-empty name, return success = false and call the provider zero times;
\* with the field present and non-empty the provider's create is called.
C3_RequiredFieldValidated ==
  (Ended /\ Method \in {"create_contact", "create_company"}) =>
    LET field == IF Method = "create_contact" THEN "email" ELSE "name"
        api == IF Method = "create_contact" THEN "crm.contacts.basic_api"
               ELSE "crm.companies.basic_api"
    IN IF MissingOrEmpty(Args.properties, field)
       THEN ret # None /\ ~Envelope.success /\ calls = <<>>
       ELSE /\ Len(calls) = 1
            /\ calls[1].api = api
            /\ calls[1].op = "create"
            /\ calls[1].args.simple_public_object_input.properties = Args.properties

\* create_company({"name": ""}): rejected without a provider call.
C3_Witness ==
  /\ Ended /\ Method = "create_company"
  /\ "name" \in DOMAIN Args.properties /\ Args.properties["name"] = Some(<<>>)
  /\ ~Envelope.success /\ calls = <<>>

\* C4: get_properties_info calls the provider zero times and returns
\* success = false for every object_type other than exactly "contacts",
\* "companies", "deals"; for these three it makes exactly one call, asking for
\* the property schema of that same object type.
C4_ObjectTypeValidated ==
  (Ended /\ Method = "get_properties_info") =>
    IF Args.object_type \in {"contacts", "companies", "deals"}
    THEN /\ Len(calls) = 1
         /\ calls[1].api = "crm.properties.core_api"
         /\ calls[1].op = "get_all"
         /\ calls[1].args.object_type = Args.object_type
    ELSE ret # None /\ ~Envelope.success /\ calls = <<>>

\* get_properties_info("companies"): one call, for the companies schema.
C4_Witness ==
  /\ Ended /\ Method = "get_properties_info" /\ Args.object_type = "companies"
  /\ Len(calls) = 1 /\ calls[1].args.object_type = "companies"
  /\ Envelope.success

\* The exception class that is specific to the entity a page read is about.
PageReadException ==
  [get_contacts |-> "ContactsApiException",
   get_companies |-> "CompaniesApiException",
   get_deals |-> "DealsApiException"]
PageReadApiError ==
  [get_contacts |-> "HubSpot contacts API error: ",
   get_companies |-> "HubSpot companies API error: ",
   get_deals |-> "HubSpot deals API error: "]

\* C5: in get_contacts, get_companies and get_deals, a provider exception of
\* the entity's own class gives an error that starts "HubSpot <entity> API
\* error: ", any other exception one that starts "Unexpected error: ", and
\* no failure gets both.
C5_PageReadErrorClassified ==
  (Ended /\ Method \in DOMAIN PageReadException /\ ProviderRaised) =>
    /\ ret # None /\ ~Envelope.success /\ Envelope.error # None
    /\ Envelope.error[1].detail = Answer.exc.msg
    /\ IF Answer.exc.cls = PageReadException[Method]
       THEN /\ Envelope.error[1].prefix = PageReadApiError[Method]
            /\ Envelope.error[1].prefix # "Unexpected error: "
       ELSE /\ Envelope.error[1].prefix = "Unexpected error: "
            /\ Envelope.error[1].prefix # PageReadApiError[Method]

\* get_contacts with the contacts exception raised: the contacts API error.
C5_Witness ==
  /\ Ended /\ Method = "get_contacts" /\ ProviderRaised
  /\ Answer.exc.cls = "ContactsApiException"
  /\ Envelope.error[1].prefix = "HubSpot contacts API error: "

\* The exception class specific to the entity each operation is about; the
\* property schema has none of the three.
EntityException ==
  [get_account_info |-> "ContactsApiException",
   get_contacts |-> "ContactsApiException",
   get_contact_by_id |-> "ContactsApiException",
   create_contact |-> "ContactsApiException",
   update_contact |-> "ContactsApiException",
   search_contacts |-> "ContactsApiException",
   get_companies |-> "CompaniesApiException",
   get_company_by_id |-> "CompaniesApiException",
   create_company |-> "CompaniesApiException",
   get_deals |-> "DealsApiException",
   get_properties_info |-> "PropertiesApiException"]

OtherExceptionRaised == Ended /\ ProviderRaised /\ Answer.exc.cls # EntityException[Method]

\* C6 as stated: in every operation, get_account_info, search_contacts and
\* get_properties_info included, an exception that is not the entity's own
\* gives an error that starts "Unexpected error: ".
C6_Original ==
  OtherExceptionRaised =>
    ret # None /\ ~Envelope.success /\ Envelope.error[1].prefix = "Unexpected error: "

\* The prefix under which the three single-clause operations report every
\* exception.
SingleClausePrefix ==
  [get_account_info |-> "Account connection error: ",
   search_contacts |-> "Search error: ",
   get_properties_info |-> "Properties error: "]

\* C6 amended: in the eight operations on contacts, companies and deals that
\* have an entity-specific clause, any other exception gives an error that
\* starts "Unexpected error: "; get_account_info, search_contacts and
\* get_properties_info report every exception, of whatever class, under
\* "Account connection error: ", "Search error: " and "Properties error: ".
C6_GenericErrorMessage ==
  (Ended /\ ProviderRaised) =>
    /\ ret # None /\ ~Envelope.success /\ Envelope.error # None
    /\ Envelope.error[1].detail = Answer.exc.msg
    /\ IF Method \in DOMAIN SingleClausePrefix
       THEN Envelope.error[1].prefix = SingleClausePrefix[Method]
       ELSE (Answer.exc.cls # EntityException[Method]
               => Envelope.error[1].prefix = "Unexpected error: ")

\* update_contact with a companies exception raised: the generic message.
C6_Witness ==
  /\ Ended /\ Method = "update_contact" /\ ProviderRaised
  /\ Answer.exc.cls = "CompaniesApiException"
  /\ Envelope.error[1].prefix = "Unexpected error: "

\* ------------------------------------------------------------ search claims
SearchEnded == Ended /\ Method = "search_contacts"
\* The contacts of the page the provider answered the search with.
Page == IF Answer.value.results = None THEN <<>> ELSE Answer.value.results[1]
AllCarryMap == \A i \in 1..Len(Page) : Page[i].properties # None
Found == Envelope.data[1].contacts
FoundIds == {Found[k].id : k \in 1..Len(Found)}
Smaller(a, b) == IF a < b THEN a ELSE b

\* Descending by relevance score, equal scores in the order of the page.
DescendingTiesInFetchOrder(cs) ==
  \A k, l \in 1..Len(cs) :
    k < l => \/ cs[k].relevance_score > cs[l].relevance_score
             \/ (cs[k].relevance_score = cs[l].relevance_score /\ cs[k].id < cs[l].id)

EmptyQueryLimit5 ==
  /\ SearchEnded /\ Args.query = <<>> /\ Args.limit = 5
  /\ ProviderReturned /\ Len(Page) <= 10

\* C7 as stated, on pages whose contacts all carry a property map (the case
\* of an absent map is C14's): search_contacts("", 5) on a page of N <= 10
\* contacts returns all N, total = N, in descending score order with ties in
\* fetch order.
C7_Original ==
  (EmptyQueryLimit5 /\ AllCarryMap) =>
    /\ ret # None /\ Envelope.success
    /\ Len(Found) = Len(Page)
    /\ Envelope.data[1].total = Len(Page)
    /\ DescendingTiesInFetchOrder(Found)

\* C7 amended: search_contacts("", 5) on a page of N <= 10 contacts matches
\* all N and returns the first min(N, 5) of them in descending score order
\* with ties in fetch order (total = min(N, 5)), no dropped contact ranking
\* before a kept one; if a fetched contact has no property map the call
\* returns a failure Envelope instead.
C7_EmptyQueryReturnsFirstLimit ==
  EmptyQueryLimit5 =>
    /\ ret # None
    /\ IF AllCarryMap
       THEN /\ Envelope.success
            /\ Len(Found) = Smaller(Len(Page), 5)
            /\ Envelope.data[1].total = Smaller(Len(Page), 5)
            /\ FoundIds \subseteq 1..Len(Page)
            /\ Cardinality(FoundIds) = Len(Found)
            /\ DescendingTiesInFetchOrder(Found)
            /\ \A k \in 1..Len(Found) :
                 Found[k].relevance_score
                   = Len(ContactText(Page[Found[k].id].properties[1])) + 1
            /\ \A i \in (1..Len(Page)) \ FoundIds : \A k \in 1..Len(Found) :
                 LET dropped == Len(ContactText(Page[i].properties[1])) + 1
                 IN \/ dropped < Found[k].relevance_score
                    \/ (dropped = Found[k].relevance_score /\ Found[k].id < i)
       ELSE ~Envelope.success /\ Envelope.data = None

\* A page of six contacts, all with a property map: five come back.
C7_Witness ==
  /\ EmptyQueryLimit5 /\ AllCarryMap /\ Len(Page) = 6
  /\ Envelope.success /\ Len(Found) = 5 /\ Envelope.data[1].total = 5

\* C8: for every query and limit >= 0 the search asks for one page of
\* 2 x limit contacts with firstname, lastname, email, company; on a normal
\* provider result it returns success = true with (a) only fetched contacts
\* whose lowercased concatenation holds the lowercased query, (b) at most
\* limit of them, (c) total equal to the length of the list.
C8_Original ==
  SearchEnded =>
    /\ Len(calls) = 1
    /\ calls[1].api = "crm.contacts.basic_api" /\ calls[1].op = "get_page"
    /\ calls[1].args.limit = 2 * Args.limit
    /\ calls[1].args.properties = <<"firstname", "lastname", "email", "company">>
    /\ ProviderReturned =>
         /\ ret # None /\ Envelope.success
         /\ \A k \in 1..Len(Found) :
              /\ Found[k].id \in 1..Len(Page)
              /\ In(Lower(Args.query), ContactText(Page[Found[k].id].properties[1]))
         /\ Len(Found) <= Args.limit
         /\ Envelope.data[1].total = Len(Found)

\* The largest number of occurrences of q in t no two of which overlap; the
\* empty string occurs once at every position and overlaps nothing.
NonOverlappingOccurrences(t, q) ==
  LET occ == {i \in 1..(Len(t) + 1) : OccursAt(q, t, i)}
      apart == {S \in SUBSET occ : \A a, b \in S : a < b => b - a >= Len(q)}
  IN IF q = <<>> THEN Cardinality(occ)
     ELSE CHOOSE n \in 0..Cardinality(occ) :
            /\ \E S \in apart : Cardinality(S) = n
            /\ \A S \in apart : Cardinality(S) <= n

\* C9: the contacts a search returns are exactly the first `limit` of the
\* matching contacts sorted by score descending, the score being the number
\* of non-overlapping occurrences of the lowercased query in the contact's
\* lowercased concatenation, equal scores in page order, and no dropped
\* match scoring strictly higher than a kept one.
C9_FirstLimitOfStableSort ==
  (SearchEnded /\ ret # None /\ Envelope.success) =>
    LET q == Lower(Args.query)
        text(i) == ContactText(Page[i].properties[1])
        matching == {i \in 1..Len(Page) : In(q, text(i))}
        score(i) == NonOverlappingOccurrences(text(i), q)
        Before(i, j) == score(i) > score(j) \/ (score(i) = score(j) /\ i < j)
    IN /\ Len(Found) = Smaller(Args.limit, Cardinality(matching))
       /\ FoundIds \subseteq matching
       /\ Cardinality(FoundIds) = Len(Found)
       /\ \A k \in 1..Len(Found) : Found[k].relevance_score = score(Found[k].id)
       /\ \A k, l \in 1..Len(Found) : k < l => Before(Found[k].id, Found[l].id)
       /\ \A i \in matching \ FoundIds : \A j \in FoundIds :
            Before(j, i) /\ ~(score(i) > score(j))

\* A search that reorders the page, keeps a tie in page order and drops a
\* match: the second contact outscores the first and third, which tie.
C9_Witness ==
  /\ SearchEnded /\ ret # None /\ Envelope.success
  /\ Args.limit = 2 /\ Len(Page) = 3 /\ Len(Found) = 2
  /\ Found[1].id = 2 /\ Found[2].id = 1
  /\ Found[1].relevance_score > Found[2].relevance_score
  /\ In(Lower(Args.query), ContactText(Page[3].properties[1]))
  /\ Page[3].properties = Page[1].properties

\* An invocation turned away by local validation.
Rejected ==
  \/ Method = "create_contact" /\ MissingOrEmpty(Args.properties, "email")
  \/ Method = "create_company" /\ MissingOrEmpty(Args.properties, "name")
  \/ Method = "get_properties_info"
       /\ Args.object_type \notin {"contacts", "companies", "deals"}

\* C10: every invocation makes exactly one call into the SDK before it
\* returns, except the ones local validation rejects, which make none; none
\* makes two or more, and a call that raised is not made again.
C10_ExactlyOneProviderCall ==
  Ended =>
    /\ IF Rejected THEN calls = <<>> ELSE Len(calls) = 1
    /\ Len(calls) <= 1
    /\ (ProviderRaised => Len(calls) = 1)

\* get_deals, the provider raising: one call was made, a failure returned.
C10_Witness ==
  /\ Ended /\ Method = "get_deals" /\ ProviderRaised
  /\ Len(calls) = 1 /\ ~Envelope.success

\* The operations that take an optional property list, and the data key
\* under which the page reads report their records.
PropertyReads ==
  {"get_contacts", "get_contact_by_id", "get_companies", "get_company_by_id", "get_deals"}
PageReads == {"get_contacts", "get_companies", "get_deals"}

\* The default list of each, as the claim spells it.
ClaimedDefault ==
  [get_contacts |-> <<"firstname", "lastname", "email", "company", "phone", "jobtitle">>,
   get_contact_by_id |-> <<"firstname", "lastname", "email", "company", "phone", "jobtitle">>,
   get_companies |-> <<"name", "domain", "industry", "city", "state", "country", "phone">>,
   get_company_by_id |-> <<"name", "domain", "industry", "city", "state", "country", "phone">>,
   get_deals |-> <<"dealname", "amount", "dealstage", "pipeline", "closedate">>]

\* C11: with no property list given, the contact reads pass the six contact
\* fields, the company reads the seven company fields and get_deals the five
\* deal fields; a list that is given, the empty one included, is passed
\* unchanged; and a page read that succeeds reports in properties_requested
\* the list that was sent.
C11_PropertyListSent ==
  (Ended /\ Method \in PropertyReads) =>
    /\ Len(calls) = 1
    /\ calls[1].args.properties
         = IF Args.properties = None THEN ClaimedDefault[Method] ELSE Args.properties[1]
    /\ (Method \in PageReads /\ ret # None /\ Envelope.success)
         => Envelope.data[1].properties_requested = calls[1].args.properties

\* get_companies with no list given: the seven company fields are sent and
\* reported back.
C11_Witness ==
  /\ Ended /\ Method = "get_companies" /\ Args.properties = None
  /\ ret # None /\ Envelope.success
  /\ calls[1].args.properties
       = <<"name", "domain", "industry", "city", "state", "country", "phone">>
  /\ Envelope.data[1].properties_requested = calls[1].args.properties

\* C12: get_account_info fetches one contacts page with limit 1; when the
\* fetch returns, the Envelope is success = true with data
\* {account_connected: true, api_working: true, has_contacts: h}, h being
\* true exactly when the page holds at least one contact (false for an empty
\* or absent list); when the fetch raises, success = false with no data.
C12_AccountInfo ==
  (Ended /\ Method = "get_account_info") =>
    /\ calls = <<[api |-> "crm.contacts.basic_api", op |-> "get_page",
                  args |-> [limit |-> 1]]>>
    /\ ret # None
    /\ IF Answer.kind = "return"
       THEN /\ Envelope.success
            /\ Envelope.data
                 = Some([account_connected |-> TRUE,
                         api_working |-> TRUE,
                         has_contacts |->
                           /\ Answer.value.results # None
                           /\ Len(Answer.value.results[1]) >= 1])
       ELSE ~Envelope.success /\ Envelope.data = None

\* The fetch returned an empty list: connected, but has_contacts is false.
C12_Witness ==
  /\ Ended /\ Method = "get_account_info" /\ ProviderReturned
  /\ Answer.value.results = Some(<<>>)
  /\ Envelope.success /\ ~Envelope.data[1].has_contacts
  /\ Envelope.data[1].account_connected /\ Envelope.data[1].api_working

\* The text a field really carries, lowercased: nothing when the field is
\* missing or null.
RealText(props, field) ==
  IF field \in DOMAIN props /\ props[field] # None THEN Lower(props[field][1]) ELSE <<>>

HasNoSpace(query) == \A i \in 1..Len(query) : query[i] # " "

\* C14: for a non-empty query with no space in it, a fetched contact is
\* returned only if the query occurs, case-insensitively, in the real string
\* value of its firstname, lastname, email or company; a missing or null
\* field gives no text to match (the query "none" does not match a null
\* field), and a contact with no property map is left out of the result
\* rather than failing the search.
C14_Original ==
  (SearchEnded /\ ProviderReturned /\ Args.query # <<>> /\ HasNoSpace(Args.query)) =>
    /\ ret # None /\ Envelope.success
    /\ \A k \in 1..Len(Found) :
         LET contact == Page[Found[k].id]
         IN /\ contact.properties # None
            /\ \E field \in {"firstname", "lastname", "email", "company"} :
                 In(Lower(Args.query), RealText(contact.properties[1], field))

\* Two invocations given the same method, arguments and provider answer
\* returned the same Envelope, whatever else was in flight around them.
OwnInputsDecide ==
  \A s, t \in DOMAIN flight :
    (/\ flight[s].pc = "returned" /\ flight[t].pc = "returned"
     /\ flight[s].inv = flight[t].inv
     /\ flight[s].resp = flight[t].resp) => flight[s].ret = flight[t].ret

\* C13: with several invocations in flight on one data source, each cut at
\* its provider call, no step changes the connection the data source keeps,
\* a step of one invocation leaves the others' arguments, calls, answers and
\* Envelopes as they were, and the Envelope an invocation returns is decided
\* by its own arguments and the provider's answer to its own call.
C13_InvocationsIndependent ==
  [][/\ client' = client
     /\ \A s, t \in DOMAIN flight :
          (s # t /\ flight'[s] # flight[s]) => flight'[t] = flight[t]
     /\ OwnInputsDecide']_vars

\* Two invocations of the same method with the same arguments outstanding
\* together: one has returned on its answer, the other still waits for its.
C13_Witness ==
  \E s, t \in DOMAIN flight :
    /\ s # t
    /\ flight[s].pc = "returned" /\ flight[s].resp # None
    /\ flight[t].pc = "awaiting"
    /\ flight[s].inv = flight[t].inv
    /\ flight[s].ret[1].success

====
